---- MODULE Spec2Model ----
(***************************************************************************)
(* Orca application layer (src/src/app/app.c): the generational window     *)
(* handle pool and the event queue built on the byte ring buffer; and the  *)
(* swapchain cache of the WebGPU surface                                   *)
(* (src/src/graphics/wgpu_surface_win32.c).                                *)
(*                                                                         *)
(* Pointers to pool slots are modelled by the slot index (window -         *)
(* oc_appData.windowPool); the null pointer is NullPtr.  The u32           *)
(* generation counter is modelled with GenMod values instead of 2^32, so   *)
(* that its wrap-around is within reach of the model checker.              *)
(***************************************************************************)
EXTENDS Integers, Sequences, FiniteSets, TLC

\* ------------------------------------------------------------------------
\* Bounds
\* ------------------------------------------------------------------------

\* number of slots of windowPool (OC_APP_MAX_WINDOWS, scaled down)
OC_APP_MAX_WINDOWS == 2

\* number of values of the u32 generation counter, which is also the weight of
\* the index half of a handle (2^32 in the code, scaled down)
GenMod == 4

\* the index half of a handle takes every pool index and two values past the pool
IndexMod == OC_APP_MAX_WINDOWS + 2

NullPtr == 0 - 1

Slots == 0 .. (OC_APP_MAX_WINDOWS - 1)

\* every handle value h (index half, generation half)
Handles == 0 .. (IndexMod * GenMod - 1)

\* a captured handle is followed for this many recycles of its slot; the
\* count saturates there
MaxRecycles == GenMod + 2

\* ------------------------------------------------------------------------
\* State
\* ------------------------------------------------------------------------

VARIABLES
    generation,      \* oc_appData.windowPool[i].generation
    windowFreeList,  \* oc_appData.windowFreeList, head first
    allocResult,     \* what oc_window_alloc returned, when it was the last call
    lookupHandle,    \* argument of oc_window_ptr_from_handle, when the last call
    lookupResult,    \* what that oc_window_ptr_from_handle returned
    held,            \* a handle kept by a caller: <<>> or <<[h, slot, recycles]>>
    firstHandle,     \* per slot, the handle taken at its first allocation, or <<>>
    scenario,        \* progress through the exhaustion scenario, or OffScenario
    lastCall,        \* name of the last pool function called
    recycled,        \* <<[slot, generation, h]>> as they were before the recycle
                     \* that was the last call, or the call before an alloc
    owned            \* slots oc_window_alloc handed out and nobody recycled since

poolVars == <<generation, windowFreeList, allocResult, lookupHandle, lookupResult,
              held, firstHandle, scenario, lastCall, recycled, owned>>

VARIABLES
    surface,         \* the oc_wgpu_surface behind the handle, or its absence
    deviceRefs,      \* per device, wgpuDeviceReference calls of the surface
                     \* minus its wgpuDeviceRelease calls
    liveSwapChains,  \* swapchains created for the surface and not released
    lastGet          \* the last oc_wgpu_surface_get_swapchain call, or NoGet

surfaceVars == <<surface, deviceRefs, liveSwapChains, lastGet>>

\* ------------------------------------------------------------------------
\* Intrusive list operations used by the pool (util/lists.h)
\* ------------------------------------------------------------------------

oc_list_append(list, elt) == Append(list, elt)

oc_list_push(list, elt) == <<elt>> \o list

\* the entry popped (NullPtr on an empty list) and the list left
oc_list_pop_entry(list) ==
    IF list = <<>> THEN [entry |-> NullPtr, list |-> list]
    ELSE [entry |-> Head(list), list |-> Tail(list)]

\* ------------------------------------------------------------------------
\* Window handles
\* ------------------------------------------------------------------------

\* mutant: the slots are pushed at the head, the last slot ending first
RECURSIVE InitFreeListPushed(_)
InitFreeListPushed(n) ==
    IF n = 0 THEN <<>> ELSE oc_list_push(InitFreeListPushed(n - 1), n - 1)

RECURSIVE InitFreeList(_)
InitFreeList(n) ==
    IF n = 0 THEN <<>> ELSE oc_list_append(InitFreeList(n - 1), n - 1)

\* oc_init_window_handles: generation 1 everywhere, slots appended in index order
oc_init_window_handles ==
    /\ generation = [i \in Slots |-> 1]
    /\ windowFreeList = InitFreeList(OC_APP_MAX_WINDOWS)

\* h >> 32 and h & 0xffffffff
HandleIndex(h) == h \div GenMod
HandleGeneration(h) == h % GenMod

\* mutant: the index is not shifted past the generation
HandleFromPtrUnshifted(window) == window + generation[window]

\* ((u64)(window - windowPool)) << 32 | (u64)window->generation
oc_window_handle_from_ptr(window) == (window * GenMod) + generation[window]

oc_window_handle_is_null(h) == h = 0

\* mutant: the generation half of the handle is not compared
PtrFromHandleAnyGeneration(h) ==
    IF HandleIndex(h) >= OC_APP_MAX_WINDOWS THEN NullPtr ELSE HandleIndex(h)

oc_window_ptr_from_handle(h) ==
    LET index == HandleIndex(h)
        gen == HandleGeneration(h)
    IN  IF index >= OC_APP_MAX_WINDOWS THEN NullPtr
        ELSE IF generation[index] # gen THEN NullPtr
        ELSE index

\* mutant: recycling leaves the generation as it is
SameGeneration(g) == g

\* window->generation++ on a u32
NextGeneration(g) == (g + 1) % GenMod

\* void oc_window_recycle_ptr(window): what it does to the pool
RecycledGeneration(window) ==
    [generation EXCEPT ![window] = NextGeneration(generation[window])]

\* mutant: the recycled slot is not put back on the free list
FreeListWithoutRecycled(window) == windowFreeList

\* mutant: the recycled slot is linked into the free list twice
RecycledFreeListTwice(window) ==
    oc_list_push(oc_list_push(windowFreeList, window), window)

\* mutant: the recycled slot goes to the back of the free list
RecycledFreeListAtTail(window) == oc_list_append(windowFreeList, window)

RecycledFreeList(window) == oc_list_push(windowFreeList, window)

\* ------------------------------------------------------------------------
\* Observers of the pool (callers' bookkeeping, not program state)
\* ------------------------------------------------------------------------

OffScenario == 0 - 1

\* The exhaustion scenario: OC_APP_MAX_WINDOWS + 1 allocs, one recycle, two
\* allocs.  scenario = k: the alloc/recycle calls since init are its first k.
ScenarioCall(k) ==
    IF k <= OC_APP_MAX_WINDOWS + 1 THEN "alloc"
    ELSE IF k = OC_APP_MAX_WINDOWS + 2 THEN "recycle"
    ELSE IF k <= OC_APP_MAX_WINDOWS + 4 THEN "alloc"
    ELSE "none"

ScenarioStep(call) ==
    IF scenario # OffScenario /\ ScenarioCall(scenario + 1) = call
    THEN scenario + 1
    ELSE OffScenario

Allocated(window) == \A k \in 1 .. Len(windowFreeList) : windowFreeList[k] # window

HeldAfterRecycle(window) ==
    IF held # <<>> /\ held[1].slot = window /\ held[1].recycles < MaxRecycles
    THEN <<[held[1] EXCEPT !.recycles = @ + 1]>>
    ELSE held

\* ------------------------------------------------------------------------
\* Pool actions
\* ------------------------------------------------------------------------

PoolInit ==
    /\ oc_init_window_handles
    /\ allocResult = NullPtr
    /\ lookupHandle = 0
    /\ lookupResult = NullPtr
    /\ held = <<>>
    /\ firstHandle = [i \in Slots |-> <<>>]
    /\ scenario = 0
    /\ lastCall = "init"
    /\ recycled = <<>>
    /\ owned = {}

WindowAlloc ==
    LET popped == oc_list_pop_entry(windowFreeList)
    IN  /\ allocResult' = popped.entry
        /\ windowFreeList' = popped.list
        /\ firstHandle' =
              IF popped.entry # NullPtr /\ firstHandle[popped.entry] = <<>>
              THEN [firstHandle EXCEPT
                      ![popped.entry] = <<oc_window_handle_from_ptr(popped.entry)>>]
              ELSE firstHandle
        /\ scenario' = ScenarioStep("alloc")
        /\ lastCall' = "alloc"
        /\ lookupHandle' = 0
        /\ lookupResult' = NullPtr
        /\ recycled' = IF lastCall = "recycle" THEN recycled ELSE <<>>
        /\ owned' = IF popped.entry = NullPtr THEN owned
                     ELSE owned \cup {popped.entry}
        /\ UNCHANGED <<generation, held>>

\* callers recycle windows they own: slots that are allocated
WindowRecycle(window) ==
    /\ Allocated(window)
    /\ generation' = RecycledGeneration(window)
    /\ windowFreeList' = RecycledFreeList(window)
    /\ held' = HeldAfterRecycle(window)
    /\ scenario' = ScenarioStep("recycle")
    /\ lastCall' = "recycle"
    /\ allocResult' = NullPtr
    /\ lookupHandle' = 0
    /\ lookupResult' = NullPtr
    /\ recycled' = <<[slot |-> window, generation |-> generation[window],
                      h |-> oc_window_handle_from_ptr(window)]>>
    /\ owned' = owned \ {window}
    /\ UNCHANGED firstHandle

\* a caller takes a handle for a slot and keeps it
HandleFromPtr(window) ==
    /\ held' = <<[h |-> oc_window_handle_from_ptr(window), slot |-> window,
                  recycles |-> 0]>>
    /\ lastCall' = "handle_from_ptr"
    /\ allocResult' = NullPtr
    /\ lookupHandle' = 0
    /\ lookupResult' = NullPtr
    /\ recycled' = <<>>
    /\ UNCHANGED <<generation, windowFreeList, firstHandle, scenario, owned>>

PtrFromHandle(h) ==
    /\ lookupHandle' = h
    /\ lookupResult' = oc_window_ptr_from_handle(h)
    /\ lastCall' = "ptr_from_handle"
    /\ allocResult' = NullPtr
    /\ recycled' = <<>>
    /\ UNCHANGED <<generation, windowFreeList, held, firstHandle, scenario, owned>>

\* a caller resolves the handle it kept
PtrFromHeldHandle ==
    /\ held # <<>>
    /\ PtrFromHandle(held[1].h)

\* ------------------------------------------------------------------------
\* WebGPU surface (src/graphics/wgpu_surface_win32.c): the cached swapchain.
\* Devices and swapchains are opaque handles, 0 being the null handle; sizes
\* are pairs <<x, y>>.
\* ------------------------------------------------------------------------

\* greatest number of references on one device that the model follows
MaxDeviceRefs == 3

Devices == {1, 2}

SwapChainIds == {1, 2, 3}

\* what base->getSize and base->contentsScaling may return
SurfaceSizes == {<<0, 0>>, <<0, 1>>, <<1, 1>>, <<2, 1>>}
Scalings == {<<1, 1>>, <<2, 2>>}

\* memset(surface, 0, sizeof(oc_wgpu_surface))
oc_wgpu_surface_create_for_window ==
    [alive |-> TRUE, wgpuDevice |-> 0, wgpuSwapChain |-> 0,
     swapChainSize |-> <<0, 0>>]

\* after free(surface) the handle leads to no surface
NoSurface ==
    [alive |-> FALSE, wgpuDevice |-> 0, wgpuSwapChain |-> 0,
     swapChainSize |-> <<0, 0>>]

NoGet ==
    [valid |-> FALSE, device |-> 0, size |-> <<0, 0>>, calls |-> <<>>,
     rebuilt |-> FALSE, result |-> 0]

\* size.x *= scale.x; size.y *= scale.y
ScaledSize(size, scale) == <<size[1] * scale[1], size[2] * scale[2]>>

\* mutant: the cached size is not compared
NeedsRebuildDeviceOnly(s, device, size) ==
    s.wgpuDevice # device \/ s.wgpuSwapChain = 0

\* the condition of lines 78-81
NeedsRebuild(s, device, size) ==
    \/ s.wgpuDevice # device
    \/ s.wgpuSwapChain = 0
    \/ s.swapChainSize[1] # size[1]
    \/ s.swapChainSize[2] # size[2]

\* The steps of the rebuild work on st = [surface, refs, live, calls]: the
\* surface, the references it holds, the swapchains alive and the calls made
\* to the WebGPU API so far.

\* lines 85-89
ReleaseSwapChain(st) ==
    IF st.surface.wgpuSwapChain # 0
    THEN [st EXCEPT !.live = @ \ {st.surface.wgpuSwapChain},
                    !.calls = Append(@, "wgpuSwapChainRelease"),
                    !.surface.wgpuSwapChain = 0]
    ELSE st

\* lines 91-95
ReleaseDevice(st, device) ==
    IF st.surface.wgpuDevice # 0 /\ st.surface.wgpuDevice # device
    THEN [st EXCEPT !.refs[st.surface.wgpuDevice] = @ - 1,
                    !.calls = Append(@, "wgpuDeviceRelease"),
                    !.surface.wgpuDevice = 0]
    ELSE st

\* wgpuDeviceCreateSwapChain gives a swapchain that is no swapchain alive
NewSwapChain(live, old) ==
    CHOOSE id \in SwapChainIds : id \notin live /\ id # old

\* lines 99-116; created tells whether wgpuDeviceCreateSwapChain succeeds
AcquireDevice(st, old, device, size, created) ==
    IF device # 0 /\ size[1] # 0 /\ size[2] # 0
    THEN LET swapChain == IF created THEN NewSwapChain(st.live, old) ELSE 0
         IN  [st EXCEPT !.surface.wgpuDevice = device,
                        !.refs[device] = @ + 1,
                        !.calls = @ \o <<"wgpuDeviceReference",
                                         "wgpuDeviceCreateSwapChain">>,
                        !.surface.wgpuSwapChain = swapChain,
                        !.live = IF created THEN @ \cup {swapChain} ELSE @]
    ELSE st

\* line 117
StoreSize(st, size) == [st EXCEPT !.surface.swapChainSize = size]

\* lines 82-118
Rebuild(st, device, size, created) ==
    StoreSize(
        AcquireDevice(ReleaseDevice(ReleaseSwapChain(st), device),
                      st.surface.wgpuSwapChain, device, size, created),
        size)

\* WGPUSwapChain oc_wgpu_surface_get_swapchain(handle, device): the surface,
\* the references and the swapchains after the call, the calls it made,
\* whether it took the rebuild branch, and what it returned
oc_wgpu_surface_get_swapchain(s, refs, live, device, size, scale, created) ==
    LET st == [surface |-> s, refs |-> refs, live |-> live, calls |-> <<>>]
        scaled == ScaledSize(size, scale)
    IN  IF ~ s.alive
        THEN [after |-> st, rebuilt |-> FALSE, result |-> 0]
        ELSE IF NeedsRebuild(s, device, scaled)
        THEN LET built == Rebuild(st, device, scaled, created)
             IN  [after |-> built, rebuilt |-> TRUE,
                  result |-> built.surface.wgpuSwapChain]
        ELSE [after |-> st, rebuilt |-> FALSE, result |-> s.wgpuSwapChain]

SurfaceInit ==
    /\ surface = oc_wgpu_surface_create_for_window
    /\ deviceRefs = [d \in Devices |-> 0]
    /\ liveSwapChains = {}
    /\ lastGet = NoGet

\* ------------------------------------------------------------------------
\* Byte ring buffer (util/ringbuffer.c).  Cursors are logical offsets that only
\* grow; the physical index of an offset is the offset modulo Capacity.
\* ------------------------------------------------------------------------

\* capacity of the event queue in bytes (1 << 16 in oc_init_common, scaled down)
Capacity == 30

\* sizeof(u64): the length field written before the bytes of each path
SizeofU64 == 8

\* longest list of paths of a pushed path-drop event
MaxPaths == 2

ByteMod == 256

oc_ringbuffer_init ==
    [buffer |-> [i \in 0 .. (Capacity - 1) |-> 0],
     readIndex |-> 0, writeIndex |-> 0, reserveIndex |-> 0]

oc_ringbuffer_read_available(q) == q.writeIndex - q.readIndex

\* bytes that may be written without overwriting unread data; bytes already
\* reserved by the transaction in progress are no longer free
oc_ringbuffer_write_available(q) == Capacity - (q.reserveIndex - q.readIndex)

\* copies the bytes at the staging cursor and advances it
RECURSIVE oc_ringbuffer_reserve(_, _)
oc_ringbuffer_reserve(q, bytes) ==
    IF bytes = <<>> THEN q
    ELSE oc_ringbuffer_reserve(
             [q EXCEPT !.buffer[q.reserveIndex % Capacity] = Head(bytes),
                       !.reserveIndex = @ + 1],
             Tail(bytes))

oc_ringbuffer_commit(q) == [q EXCEPT !.writeIndex = q.reserveIndex]

oc_ringbuffer_rewind(q) == [q EXCEPT !.reserveIndex = q.writeIndex]

\* the size bytes at the read cursor
ReadBytes(q, size) == [k \in 1 .. size |-> q.buffer[(q.readIndex + k - 1) % Capacity]]

\* copies size bytes out and advances the read cursor
oc_ringbuffer_read(q, size) ==
    [queue |-> [q EXCEPT !.readIndex = @ + size], bytes |-> ReadBytes(q, size)]

\* ------------------------------------------------------------------------
\* Events and their bytes
\* ------------------------------------------------------------------------

\* the fields of the fixed-size oc_event as laid out in the model, one byte
\* each; the last ones stand for the members of the union that the events of
\* the model leave zero
HeaderFields == <<"type", "window", "paths.eltCount", "key", "character", "mouse",
                  "move", "frame", "unused", "unused">>

\* sizeof(oc_event)
SizeofEvent == Len(HeaderFields)

\* pushes stop once the write cursor has gone this far
MaxOffset == Capacity + SizeofEvent

EventTypes == <<"OC_EVENT_WINDOW_CLOSE", "OC_EVENT_PATHDROP">>

TypeTag(type) == CHOOSE t \in 1 .. Len(EventTypes) : EventTypes[t] = type

\* (u8*)event: the bytes of the struct; paths.eltCount is one of them, the
\* list's element pointers mean nothing outside the producer
EventBytes(event) ==
    [k \in 1 .. SizeofEvent |->
        IF HeaderFields[k] = "type" THEN event.type
        ELSE IF HeaderFields[k] = "window" THEN event.window
        ELSE IF HeaderFields[k] = "paths.eltCount" THEN event.eltCount
        ELSE 0]

OC_EVENT_WINDOW_CLOSE == TypeTag("OC_EVENT_WINDOW_CLOSE")

OC_EVENT_PATHDROP == TypeTag("OC_EVENT_PATHDROP")

\* (u8*)&path->len: the size bytes of a u64, least significant byte first
RECURSIVE LittleEndian(_, _)
LittleEndian(n, size) ==
    IF size = 0 THEN <<>>
    ELSE <<n % ByteMod>> \o LittleEndian(n \div ByteMod, size - 1)

\* mutant: the length is written most significant byte first
U64BytesMostSignificantFirst(n) ==
    [k \in 1 .. SizeofU64 |-> LittleEndian(n, SizeofU64)[SizeofU64 + 1 - k]]

U64Bytes(n) == LittleEndian(n, SizeofU64)

\* lengths from here up are all represented by LenCap: far more than the
\* queue can hold, and all that is done with a length is to compare it with
\* the bytes available
LenCap == ByteMod * ByteMod * ByteMod

\* the u64 read back from its bytes
RECURSIVE U64FromBytes(_)
U64FromBytes(bytes) ==
    IF bytes = <<>> THEN 0
    ELSE LET high == U64FromBytes(Tail(bytes))
         IN  IF high >= LenCap \div ByteMod THEN LenCap
             ELSE Head(bytes) + ByteMod * high

\* a null oc_event*
NoEvent == [type |-> 0 - 1, window |-> 0, eltCount |-> 0, paths |-> <<>>]

\* ------------------------------------------------------------------------
\* oc_queue_event
\* ------------------------------------------------------------------------

\* mutant: the header is written whatever room there is
QueueHeaderFitsAlways(q) == TRUE

\* the first check and the reserve of the header (app.c 102-109)
QueueHeaderFits(q) == ~ (oc_ringbuffer_write_available(q) < SizeofEvent)

\* mutant: the header is published as soon as it is written
QueueHeaderPublished(q, event) ==
    oc_ringbuffer_commit(oc_ringbuffer_reserve(q, EventBytes(event)))

QueueHeader(q, event) == oc_ringbuffer_reserve(q, EventBytes(event))

\* mutant: the room asked for leaves out the length written before the bytes
QueuePathFitsBytesOnly(q, path) ==
    ~ (oc_ringbuffer_write_available(q) < Len(path))

\* mutant: a path is written without asking for room
QueuePathFitsUnchecked(q, path) == TRUE

\* the check made for one path (app.c 116)
QueuePathFits(q, path) ==
    ~ (oc_ringbuffer_write_available(q) < SizeofU64 + Len(path))

\* mutant: the bytes of a path are written before its length
QueuePathBytesFirst(q, path) ==
    oc_ringbuffer_reserve(oc_ringbuffer_reserve(q, path), U64Bytes(Len(path)))

\* the two reserves of one path (app.c 124-125)
QueuePath(q, path) ==
    oc_ringbuffer_reserve(oc_ringbuffer_reserve(q, U64Bytes(Len(path))), path)

\* the loop over event->paths.list (app.c 113-127): the queue and the error flag
RECURSIVE QueuePaths(_, _)
QueuePaths(q, paths) ==
    IF paths = <<>> THEN [queue |-> q, error |-> FALSE]
    ELSE IF ~ QueuePathFits(q, Head(paths)) THEN [queue |-> q, error |-> TRUE]
    ELSE QueuePaths(QueuePath(q, Head(paths)), Tail(paths))

\* the paths the loop walks: only a path-drop event has any (app.c 111)
QueuedPaths(event) ==
    IF event.type = OC_EVENT_PATHDROP THEN event.paths ELSE <<>>

\* mutant: the transaction is committed even when a path did not fit
QueueFinishAlwaysCommit(q, error) == oc_ringbuffer_commit(q)

\* rewind or commit (app.c 129-136)
QueueFinish(q, error) ==
    IF error THEN oc_ringbuffer_rewind(q) ELSE oc_ringbuffer_commit(q)

oc_queue_event(q, event) ==
    IF ~ QueueHeaderFits(q) THEN q
    ELSE LET r == QueuePaths(QueueHeader(q, event), QueuedPaths(event))
         IN  QueueFinish(r.queue, r.error)

\* ------------------------------------------------------------------------
\* oc_next_event
\* ------------------------------------------------------------------------

\* mutant: a malformed payload makes the loop throw away the paths it has read
RECURSIVE NextPathsAllOrNothing(_, _, _)
NextPathsAllOrNothing(q, count, paths) ==
    IF count = 0 THEN [queue |-> q, paths |-> paths, malformed |-> "no"]
    ELSE IF oc_ringbuffer_read_available(q) < SizeofU64
    THEN [queue |-> q, paths |-> <<>>, malformed |-> "no string size"]
    ELSE LET l == oc_ringbuffer_read(q, SizeofU64)
             len == U64FromBytes(l.bytes)
         IN  IF oc_ringbuffer_read_available(l.queue) < len
             THEN [queue |-> l.queue, paths |-> <<>>,
                   malformed |-> "string shorter than expected"]
             ELSE LET b == oc_ringbuffer_read(l.queue, len)
                  IN  NextPathsAllOrNothing(b.queue, count - 1,
                                            Append(paths, b.bytes))

\* the loop over the declared path count (app.c 157-177): the queue, the
\* paths read and which malformed-payload branch ended it, if any
RECURSIVE NextPaths(_, _, _)
NextPaths(q, count, paths) ==
    IF count = 0 THEN [queue |-> q, paths |-> paths, malformed |-> "no"]
    ELSE IF oc_ringbuffer_read_available(q) < SizeofU64
    THEN [queue |-> q, paths |-> paths, malformed |-> "no string size"]
    ELSE LET l == oc_ringbuffer_read(q, SizeofU64)
             len == U64FromBytes(l.bytes)
         IN  IF oc_ringbuffer_read_available(l.queue) < len
             THEN [queue |-> l.queue, paths |-> paths,
                   malformed |-> "string shorter than expected"]
             ELSE LET b == oc_ringbuffer_read(l.queue, len)
                  IN  NextPaths(b.queue, count - 1, Append(paths, b.bytes))

\* mutant: an event is read only when more than a header is unread
NextHasMoreThanHeader(q) == oc_ringbuffer_read_available(q) > SizeofEvent

NextHasEvent(q) == oc_ringbuffer_read_available(q) >= SizeofEvent

\* the queue after the call, the event returned (NoEvent for a null return)
oc_next_event(q) ==
    IF ~ NextHasEvent(q) THEN [queue |-> q, event |-> NoEvent, malformed |-> "no"]
    ELSE LET h == oc_ringbuffer_read(q, SizeofEvent)
             type == h.bytes[1]
         IN  IF type = OC_EVENT_PATHDROP
             THEN LET r == NextPaths(h.queue, h.bytes[3], <<>>)
                  IN  [queue |-> r.queue,
                       event |-> [type |-> type, window |-> h.bytes[2],
                                  eltCount |-> Len(r.paths), paths |-> r.paths],
                       malformed |-> r.malformed]
             ELSE [queue |-> h.queue,
                   event |-> [type |-> type, window |-> h.bytes[2],
                              eltCount |-> h.bytes[3], paths |-> <<>>],
                   malformed |-> "no"]

\* ------------------------------------------------------------------------
\* Events the platform layer pushes
\* ------------------------------------------------------------------------

PathStrings == {<<>>, <<6, 7>>}

RECURSIVE PathLists(_)
PathLists(n) ==
    IF n = 0 THEN {<<>>}
    ELSE LET shorter == PathLists(n - 1)
         IN  shorter \cup {Append(l, p) : l \in {x \in shorter : Len(x) = n - 1},
                                          p \in PathStrings}

Windows == {1, 2}

\* events without payload; the byte that is paths.eltCount in a path-drop event
\* belongs to another member of the union and holds what that member holds
PlainEvents ==
    {[type |-> OC_EVENT_WINDOW_CLOSE, window |-> w, eltCount |-> w - 1, paths |-> <<>>] :
        w \in Windows}

\* path-drop events whose list was built with oc_str8_list_push: eltCount is
\* the number of elements
PathDropEvents ==
    {[type |-> OC_EVENT_PATHDROP, window |-> 1, eltCount |-> Len(l), paths |-> l] :
        l \in PathLists(MaxPaths)}

\* path-drop events whose header declares one path more than the list holds
MiscountedEvents ==
    {[type |-> OC_EVENT_PATHDROP, window |-> 1, eltCount |-> Len(l) + 1, paths |-> l] :
        l \in PathLists(MaxPaths)}

\* ------------------------------------------------------------------------
\* Queue state
\* ------------------------------------------------------------------------

VARIABLES
    eventQueue,   \* oc_appData.eventQueue
    lastEvent,    \* what oc_next_event returned, when it was the last call
    lastMalformed,\* the malformed-payload branch that oc_next_event took
    lastFit,      \* the last call was an oc_queue_event whose event fitted
    queueCall,    \* name of the last queue function called
    pending,      \* events pushed whole and not yet delivered, oldest first
    expected,     \* the oldest such event when that oc_next_event was called
    producer,     \* the oc_queue_event in progress (stepwise specification)
    retry         \* progress through the fill, reject, release, accept scenario

queueVars == <<eventQueue, lastEvent, lastMalformed, lastFit, queueCall,
               pending, expected, producer, retry>>

vars == <<poolVars, queueVars, surfaceVars>>

\* number of bytes oc_queue_event writes for an event
RECURSIVE PathsSize(_)
PathsSize(paths) ==
    IF paths = <<>> THEN 0 ELSE SizeofU64 + Len(Head(paths)) + PathsSize(Tail(paths))

SerializedSize(event) == SizeofEvent + PathsSize(QueuedPaths(event))

RECURSIVE PendingSize(_)
PendingSize(events) ==
    IF events = <<>> THEN 0 ELSE SerializedSize(Head(events)) + PendingSize(Tail(events))

\* the event as the consumer is to see it: a path-drop event with its paths,
\* any other event with its header fields
Delivered(event) ==
    IF event.type = OC_EVENT_PATHDROP
    THEN [event EXCEPT !.eltCount = Len(event.paths)]
    ELSE [event EXCEPT !.paths = <<>>]

Idle == [pc |-> "idle", event |-> NoEvent, paths |-> <<>>, error |-> FALSE]

\* an event that is serialized as its header alone
PayloadFree(event) == SerializedSize(event) = SizeofEvent

RECURSIVE AllPayloadFree(_)
AllPayloadFree(events) ==
    events = <<>> \/ (PayloadFree(Head(events)) /\ AllPayloadFree(Tail(events)))

\* The fill, reject, release, accept scenario, followed from a queue that
\* payload-free events fill to its capacity:
\*   stage 1  a payload-free event was pushed on the full queue
\*   stage 2  then oc_next_event was called once
\*   stage 3  then the same event was pushed again
\*   stage 4  then oc_next_event was called, for an event pushed earlier
\*   stage 5  then oc_next_event was called, all earlier events being read
\* queue is the queue before the call of that stage, ahead the number of
\* events still to be read before the one pushed again.
NoRetry == [stage |-> 0, event |-> NoEvent, queue |-> <<>>, ahead |-> 0]

RetryAfterQueue(event) ==
    IF retry.stage = 2 /\ event = retry.event
    THEN [stage |-> 3, event |-> event, queue |-> eventQueue, ahead |-> Len(pending)]
    ELSE IF /\ PayloadFree(event)
            /\ AllPayloadFree(pending)
            /\ oc_ringbuffer_read_available(eventQueue) = Capacity
    THEN [stage |-> 1, event |-> event, queue |-> eventQueue, ahead |-> 0]
    ELSE NoRetry

RetryAfterNext ==
    IF retry.stage = 1
    THEN [retry EXCEPT !.stage = 2, !.queue = eventQueue]
    ELSE IF retry.stage \in {3, 4} /\ retry.ahead > 0
    THEN [retry EXCEPT !.stage = 4, !.queue = eventQueue, !.ahead = @ - 1]
    ELSE IF retry.stage \in {3, 4}
    THEN [retry EXCEPT !.stage = 5, !.queue = eventQueue]
    ELSE NoRetry

QueueInit ==
    /\ eventQueue = oc_ringbuffer_init
    /\ lastEvent = NoEvent
    /\ lastMalformed = "no"
    /\ lastFit = FALSE
    /\ queueCall = "init"
    /\ pending = <<>>
    /\ expected = NoEvent
    /\ producer = Idle
    /\ retry = NoRetry

\* oc_init_common
Init == PoolInit /\ QueueInit /\ SurfaceInit

\* ------------------------------------------------------------------------
\* Queue actions: each call runs to completion
\* ------------------------------------------------------------------------

\* the whole event fits in the space that is free
Fits(q, event) == SerializedSize(event) <= Capacity - (q.writeIndex - q.readIndex)

QueueEvent(event) ==
    /\ eventQueue.writeIndex < MaxOffset
    /\ eventQueue' = oc_queue_event(eventQueue, event)
    /\ lastFit' = Fits(eventQueue, event)
    /\ queueCall' = "queue"
    /\ pending' = IF Fits(eventQueue, event) THEN Append(pending, event) ELSE pending
    /\ lastEvent' = NoEvent
    /\ lastMalformed' = "no"
    /\ expected' = NoEvent
    /\ retry' = RetryAfterQueue(event)
    /\ UNCHANGED producer
    /\ UNCHANGED <<poolVars, surfaceVars>>

NextEvent ==
    LET r == oc_next_event(eventQueue)
    IN  /\ eventQueue' = r.queue
        /\ lastEvent' = r.event
        /\ lastMalformed' = r.malformed
        /\ queueCall' = "next"
        /\ expected' = IF pending = <<>> THEN NoEvent ELSE Delivered(Head(pending))
        /\ pending' = IF pending = <<>> THEN pending ELSE Tail(pending)
        /\ lastFit' = FALSE
        /\ retry' = RetryAfterNext
        /\ UNCHANGED producer
        /\ UNCHANGED <<poolVars, surfaceVars>>

QueuePlain == \E event \in PlainEvents : QueueEvent(event)

QueuePathDrop == \E event \in PathDropEvents : QueueEvent(event)

QueueMiscounted == \E event \in MiscountedEvents : QueueEvent(event)

Next == QueuePlain \/ QueuePathDrop \/ NextEvent

\* the platform layer pushes events whose path count is accurate
Spec == Init /\ [][Next]_vars

NextMalformed == QueuePlain \/ QueuePathDrop \/ QueueMiscounted \/ NextEvent

\* a producer may also push a path-drop event whose count is wrong
SpecMalformed == Init /\ [][NextMalformed]_vars

\* ------------------------------------------------------------------------
\* Queue actions: oc_queue_event step by step, on the producer's side, while
\* the consumer calls oc_next_event
\* ------------------------------------------------------------------------

\* app.c 102-109: the call ends at once when the header does not fit
ProducerHeader(event) ==
    /\ producer.pc = "idle"
    /\ eventQueue.writeIndex < MaxOffset
    /\ IF ~ QueueHeaderFits(eventQueue)
       THEN UNCHANGED <<eventQueue, producer>>
       ELSE /\ eventQueue' = QueueHeader(eventQueue, event)
            /\ producer' = [pc |-> "paths", event |-> event,
                            paths |-> QueuedPaths(event), error |-> FALSE]
    /\ queueCall' = "queue"
    /\ UNCHANGED <<lastEvent, lastMalformed, lastFit, pending, expected, retry>>
    /\ UNCHANGED <<poolVars, surfaceVars>>

\* app.c 113-127: one turn of the loop
ProducerPath ==
    /\ producer.pc = "paths"
    /\ producer.paths # <<>>
    /\ IF ~ QueuePathFits(eventQueue, Head(producer.paths))
       THEN /\ producer' = [producer EXCEPT !.pc = "finish", !.error = TRUE]
            /\ UNCHANGED eventQueue
       ELSE /\ eventQueue' = QueuePath(eventQueue, Head(producer.paths))
            /\ producer' = [producer EXCEPT !.paths = Tail(@)]
    /\ UNCHANGED <<lastEvent, lastMalformed, lastFit, queueCall, pending, expected,
                   retry>>
    /\ UNCHANGED <<poolVars, surfaceVars>>

\* app.c 129-136: the event is whole in the queue once it is committed
ProducerFinish ==
    /\ \/ producer.pc = "finish"
       \/ producer.pc = "paths" /\ producer.paths = <<>>
    /\ eventQueue' = QueueFinish(eventQueue, producer.error)
    /\ pending' = IF producer.error THEN pending ELSE Append(pending, producer.event)
    /\ producer' = Idle
    /\ UNCHANGED <<lastEvent, lastMalformed, lastFit, queueCall, expected, retry>>
    /\ UNCHANGED <<poolVars, surfaceVars>>

ProducerPlain == \E event \in PlainEvents : ProducerHeader(event)

ProducerPathDrop == \E event \in PathDropEvents : ProducerHeader(event)

NextSPSC ==
    ProducerPlain \/ ProducerPathDrop \/ ProducerPath \/ ProducerFinish \/ NextEvent

\* single producer, single consumer
SpecSPSC == Init /\ [][NextSPSC]_vars

\* ------------------------------------------------------------------------
\* Surface specification: the renderer asks for the swapchain with any
\* device, while the window is resized and rescaled; the surface is
\* destroyed at some point
\* ------------------------------------------------------------------------

GetSwapchainCall(device, size, scale, created) ==
    LET r == oc_wgpu_surface_get_swapchain(surface, deviceRefs, liveSwapChains,
                                           device, size, scale, created)
    IN  /\ \A d \in Devices : r.after.refs[d] <= MaxDeviceRefs
        /\ surface' = r.after.surface
        /\ deviceRefs' = r.after.refs
        /\ liveSwapChains' = r.after.live
        /\ lastGet' = [valid |-> surface.alive, device |-> device,
                       size |-> ScaledSize(size, scale),
                       calls |-> r.after.calls, rebuilt |-> r.rebuilt,
                       result |-> r.result]
        /\ UNCHANGED <<poolVars, queueVars>>

\* oc_wgpu_surface_destroy: the swapchain is released, the surface freed
oc_wgpu_surface_destroy ==
    /\ surface.alive
    /\ surface' = NoSurface
    /\ liveSwapChains' = liveSwapChains \ {surface.wgpuSwapChain}
    /\ UNCHANGED <<deviceRefs, lastGet>>
    /\ UNCHANGED <<poolVars, queueVars>>

GetSwapchain ==
    \E device \in {0} \cup Devices, size \in SurfaceSizes, scale \in Scalings,
       created \in BOOLEAN :
        GetSwapchainCall(device, size, scale, created)

NextSurface == GetSwapchain \/ oc_wgpu_surface_destroy

SpecSurface == Init /\ [][NextSurface]_vars

\* ------------------------------------------------------------------------
\* Pool specifications
\* ------------------------------------------------------------------------

Alloc == WindowAlloc /\ UNCHANGED <<queueVars, surfaceVars>>

Recycle == \E window \in Slots : WindowRecycle(window) /\ UNCHANGED <<queueVars, surfaceVars>>

TakeHandle == \E window \in Slots : HandleFromPtr(window) /\ UNCHANGED <<queueVars, surfaceVars>>

ResolveHeld == PtrFromHeldHandle /\ UNCHANGED <<queueVars, surfaceVars>>

Resolve == \E h \in Handles : PtrFromHandle(h) /\ UNCHANGED <<queueVars, surfaceVars>>

NextPool == Alloc \/ Recycle \/ TakeHandle \/ ResolveHeld

\* windows are created and destroyed; a caller keeps a handle and resolves it
SpecPool == Init /\ [][NextPool]_vars

NextLookup == Alloc \/ Recycle \/ Resolve

\* windows are created and destroyed; any 64-bit value is resolved as a handle
SpecLookup == Init /\ [][NextLookup]_vars

\* ------------------------------------------------------------------------
\* What the queue is to hold: the bytes of the events pushed whole
\* ------------------------------------------------------------------------

RECURSIVE PathsBytes(_)
PathsBytes(paths) ==
    IF paths = <<>> THEN <<>>
    ELSE U64Bytes(Len(Head(paths))) \o Head(paths) \o PathsBytes(Tail(paths))

\* layout of a record: the header, then (u64 length, bytes) for each path
RecordBytes(event) == EventBytes(event) \o PathsBytes(QueuedPaths(event))

RECURSIVE RecordsBytes(_)
RecordsBytes(events) ==
    IF events = <<>> THEN <<>>
    ELSE RecordBytes(Head(events)) \o RecordsBytes(Tail(events))

\* the bytes between the read cursor and the committed write cursor
CommittedBytes(q) == ReadBytes(q, q.writeIndex - q.readIndex)

\* the leading elements of a payload that are whole, at most count of them
RECURSIVE WholeElements(_, _)
WholeElements(bytes, count) ==
    IF count = 0 \/ Len(bytes) < SizeofU64 THEN <<>>
    ELSE LET len == U64FromBytes(SubSeq(bytes, 1, SizeofU64))
         IN  IF Len(bytes) - SizeofU64 < len THEN <<>>
             ELSE <<SubSeq(bytes, SizeofU64 + 1, SizeofU64 + len)>>
                  \o WholeElements(SubSeq(bytes, SizeofU64 + len + 1, Len(bytes)),
                                   count - 1)

\* ------------------------------------------------------------------------
\* Claims
\* ------------------------------------------------------------------------

\* C1: FIFO round trip.  Events that fit are delivered by oc_next_event in the
\* order pushed, each with the tag, fixed fields and paths it was pushed with,
\* and oc_next_event returns no event exactly when none is left.
C1_RoundTrip ==
    queueCall = "next" => lastEvent = expected

\* a two-path event has been delivered whose record wrapped around the end of
\* the buffer
C1_Witness ==
    /\ queueCall = "next"
    /\ lastEvent.type = OC_EVENT_PATHDROP
    /\ lastEvent.paths = << <<6, 7>>, <<>> >>
    /\ eventQueue.readIndex > Capacity
    /\ eventQueue.readIndex % Capacity < SizeofEvent + SizeofU64

\* C2: atomic publication.  However the steps of an oc_queue_event interleave
\* with oc_next_event calls, the committed unread bytes are the records of
\* events pushed whole, and every event returned is one of them.
C2_AtomicPublication ==
    /\ CommittedBytes(eventQueue) = RecordsBytes(pending)
    /\ lastEvent = expected

\* the consumer took an event while a push had staged bytes not yet committed
C2_Witness ==
    /\ queueCall = "next"
    /\ lastEvent.type = OC_EVENT_PATHDROP
    /\ producer.pc = "paths"
    /\ producer.paths = <<>>
    /\ Len(producer.event.paths) = MaxPaths
    /\ eventQueue.reserveIndex > eventQueue.writeIndex

\* C3: a rejected push leaves no residue.  When the event does not fit,
\* read_available and write_available are what they were, the staging cursor is
\* the committed write cursor, and the committed bytes, hence what later
\* oc_next_event calls return, are unchanged.
C3_NoResidue ==
    [][(queueCall' = "queue" /\ ~ lastFit') =>
          /\ oc_ringbuffer_read_available(eventQueue') =
                oc_ringbuffer_read_available(eventQueue)
          /\ oc_ringbuffer_write_available(eventQueue') =
                oc_ringbuffer_write_available(eventQueue)
          /\ eventQueue'.reserveIndex = eventQueue'.writeIndex
          /\ eventQueue'.writeIndex = eventQueue.writeIndex
          /\ eventQueue'.readIndex = eventQueue.readIndex
          /\ CommittedBytes(eventQueue') = CommittedBytes(eventQueue)]_vars

\* a path-drop event was dropped after its header had been staged: the header
\* is in the buffer past the write cursor
C3_Witness ==
    /\ queueCall = "queue"
    /\ ~ lastFit
    /\ eventQueue.writeIndex > eventQueue.readIndex
    /\ oc_ringbuffer_write_available(eventQueue) >= SizeofEvent + SizeofU64
    /\ eventQueue.buffer[eventQueue.writeIndex % Capacity] = OC_EVENT_PATHDROP
    /\ eventQueue.buffer[(eventQueue.writeIndex + SizeofEvent) % Capacity] = 0

\* C4: cursor invariant.  R <= W and W - R <= Capacity in every state, and the
\* unread bytes are still the records that were pushed.
C4_CursorInvariant ==
    /\ eventQueue.readIndex <= eventQueue.writeIndex
    /\ eventQueue.writeIndex - eventQueue.readIndex <= Capacity
    /\ CommittedBytes(eventQueue) = RecordsBytes(pending)

\* the queue is full to the last byte after the cursors have wrapped
C4_Witness ==
    /\ eventQueue.writeIndex - eventQueue.readIndex = Capacity
    /\ eventQueue.readIndex % Capacity # 0
    /\ eventQueue.writeIndex > Capacity
    /\ queueCall = "queue"
    /\ lastFit

\* C5 as stated: a handle taken for a slot resolves to null in every state
\* after the slot has been recycled, however many times.
C5_StaleHandleNeverResolves ==
    (held # <<>> /\ held[1].recycles > 0) =>
        oc_window_ptr_from_handle(held[1].h) = NullPtr

\* C5, amended: a handle taken for a slot resolves to null whenever the number
\* of recycles of that slot since the handle was taken is not a multiple of
\* the number of values of the generation counter (2^32 in the code).
C5_StaleHandleDetected ==
    (held # <<>> /\ held[1].recycles < MaxRecycles
                 /\ held[1].recycles % GenMod # 0) =>
        /\ oc_window_ptr_from_handle(held[1].h) = NullPtr
        /\ (lastCall = "ptr_from_handle" /\ lookupHandle = held[1].h) =>
              lookupResult = NullPtr

\* the handle was resolved to null after its slot had been recycled more than
\* once and given out again
C5_Witness ==
    /\ held # <<>>
    /\ held[1].recycles > 1
    /\ held[1].recycles < GenMod
    /\ Allocated(held[1].slot)
    /\ lastCall = "ptr_from_handle"
    /\ lookupHandle = held[1].h
    /\ lookupResult = NullPtr

\* C6: exhaustion and recovery.  From a fresh pool the first
\* OC_APP_MAX_WINDOWS allocs succeed and the next returns null; after one
\* recycle one alloc succeeds, with a generation that differs from the one in
\* the handle first taken for that slot, and the alloc after it returns null.
C6_ExhaustionAndRecovery ==
    lastCall = "alloc" =>
        /\ scenario \in 1 .. OC_APP_MAX_WINDOWS => allocResult # NullPtr
        /\ scenario = OC_APP_MAX_WINDOWS + 1 => allocResult = NullPtr
        /\ scenario = OC_APP_MAX_WINDOWS + 3 =>
              /\ allocResult # NullPtr
              /\ firstHandle[allocResult] # <<>>
              /\ generation[allocResult] #
                    HandleGeneration(firstHandle[allocResult][1])
        /\ scenario = OC_APP_MAX_WINDOWS + 4 => allocResult = NullPtr

\* the scenario has run to its end: the alloc after the recovered one failed
C6_Witness ==
    /\ lastCall = "alloc"
    /\ scenario = OC_APP_MAX_WINDOWS + 4
    /\ allocResult = NullPtr
    /\ windowFreeList = <<>>

\* C7: handle validity rule.  oc_window_ptr_from_handle(h) returns the slot at
\* index h >> 32 if and only if that index is below the pool size and the
\* slot's generation is the low half of h, returns null otherwise, and leaves
\* the pool as it was.
C7_HandleValidity ==
    [][lastCall' = "ptr_from_handle" =>
          /\ \A index \in 0 .. (IndexMod - 1), gen \in 0 .. (GenMod - 1) :
                lookupHandle' = index * GenMod + gen =>
                   lookupResult' =
                      IF index < OC_APP_MAX_WINDOWS /\ generation[index] = gen
                      THEN index ELSE NullPtr
          /\ generation' = generation
          /\ windowFreeList' = windowFreeList]_vars

\* a handle resolved to a slot that had been recycled, and a handle with an
\* index past the pool and that slot's generation resolved to null
C7_Witness ==
    /\ lastCall = "ptr_from_handle"
    /\ HandleIndex(lookupHandle) >= OC_APP_MAX_WINDOWS
    /\ HandleGeneration(lookupHandle) = generation[0]
    /\ generation[0] > 1
    /\ lookupResult = NullPtr

\* C8: every slot's generation counter is nonzero in every state.
C8_GenerationNeverZero ==
    \A window \in Slots : generation[window] # 0

\* C9: non-blocking pop.  oc_next_event returns no event exactly when fewer
\* than sizeof(oc_event) committed bytes are unread, and then leaves the
\* cursors and the buffer as they were; otherwise it returns an event and
\* advances the read cursor.
C9_NonBlockingPop ==
    [][queueCall' = "next" =>
          IF oc_ringbuffer_read_available(eventQueue) < SizeofEvent
          THEN /\ lastEvent' = NoEvent
               /\ eventQueue' = eventQueue
          ELSE /\ lastEvent' # NoEvent
               /\ eventQueue'.readIndex > eventQueue.readIndex
               /\ eventQueue'.writeIndex = eventQueue.writeIndex]_vars

\* no event was returned although some bytes, fewer than a header, are unread
C9_Witness ==
    /\ queueCall = "next"
    /\ lastEvent = NoEvent
    /\ oc_ringbuffer_read_available(eventQueue) > 0
    /\ oc_ringbuffer_read_available(eventQueue) < SizeofEvent

\* C10: malformed-payload truncation.  When a path-drop header declares N
\* paths, oc_next_event returns the event with exactly the leading elements
\* that are whole in the committed bytes, at most N of them, and it takes a
\* malformed-payload branch exactly when these are fewer than N.
C10_Truncation ==
    [][(/\ queueCall' = "next"
        /\ oc_ringbuffer_read_available(eventQueue) >= SizeofEvent
        /\ CommittedBytes(eventQueue)[1] = OC_EVENT_PATHDROP) =>
          LET committed == CommittedBytes(eventQueue)
              declared == committed[3]
              whole == WholeElements(SubSeq(committed, SizeofEvent + 1,
                                            Len(committed)), declared)
          IN  /\ lastEvent' # NoEvent
              /\ lastEvent'.type = OC_EVENT_PATHDROP
              /\ lastEvent'.paths = whole
              /\ lastEvent'.eltCount = Len(whole)
              /\ Len(lastEvent'.paths) <= declared
              /\ (lastMalformed' # "no") = (Len(whole) < declared)]_vars

\* an event came back with one whole path, fewer than its header declared,
\* after a length was read that the unread bytes could not cover
C10_Witness ==
    /\ queueCall = "next"
    /\ lastEvent.type = OC_EVENT_PATHDROP
    /\ lastMalformed = "string shorter than expected"
    /\ lastEvent.paths = << <<6, 7>> >>

\* C11 as stated: an oc_window_alloc that immediately follows
\* oc_window_recycle_ptr(slot) returns that slot, whose generation is exactly
\* one greater than before the recycle; the handle taken before the recycle
\* resolves to null and the handle taken after the alloc resolves to the slot.
C11_LifoReuseOneGreater ==
    (lastCall = "alloc" /\ recycled # <<>>) =>
        /\ allocResult = recycled[1].slot
        /\ generation[allocResult] = recycled[1].generation + 1
        /\ oc_window_ptr_from_handle(recycled[1].h) = NullPtr
        /\ oc_window_ptr_from_handle(oc_window_handle_from_ptr(allocResult))
              = allocResult

\* C11, amended: as above, with the generation one greater than before the
\* recycle modulo the number of values of the generation counter (2^32 in the
\* code), so that the greatest generation is followed by 0.
C11_LifoReuse ==
    (lastCall = "alloc" /\ recycled # <<>>) =>
        /\ allocResult = recycled[1].slot
        /\ generation[allocResult] = (recycled[1].generation + 1) % GenMod
        /\ generation[allocResult] # recycled[1].generation
        /\ oc_window_ptr_from_handle(recycled[1].h) = NullPtr
        /\ oc_window_ptr_from_handle(oc_window_handle_from_ptr(allocResult))
              = allocResult

\* from a fresh pool: alloc gave slot 0 at generation 1, slot 0 was recycled
\* while other slots were still free, and the next alloc gave slot 0 at
\* generation 2
C11_Witness ==
    /\ lastCall = "alloc"
    /\ recycled # <<>>
    /\ recycled[1].slot = 0
    /\ recycled[1].generation = 1
    /\ allocResult = 0
    /\ generation[0] = 2
    /\ windowFreeList = Tail(InitFreeList(OC_APP_MAX_WINDOWS))
    /\ \A window \in Slots \ {0} : generation[window] = 1

\* C12: fill, reject, release, accept.  When payload-free events fill the
\* queue to exactly its capacity, the next oc_queue_event is rejected and
\* leaves the cursors and the buffer as they were; one oc_next_event then
\* makes write_available grow by exactly the serialized size of the event it
\* returned; pushing the rejected event again then succeeds, and that event
\* is delivered after all the events pushed before it.
C12_FillRejectReleaseAccept ==
    /\ retry.stage = 1 =>
          /\ eventQueue = retry.queue
          /\ oc_ringbuffer_write_available(eventQueue) = 0
    /\ retry.stage = 2 =>
          /\ lastEvent # NoEvent
          /\ oc_ringbuffer_write_available(eventQueue) =
                oc_ringbuffer_write_available(retry.queue)
                   + SerializedSize(lastEvent)
          /\ SerializedSize(retry.event) <=
                oc_ringbuffer_write_available(eventQueue)
    /\ retry.stage = 3 =>
          /\ eventQueue.writeIndex =
                retry.queue.writeIndex + SerializedSize(retry.event)
          /\ eventQueue.reserveIndex = eventQueue.writeIndex
          /\ eventQueue.readIndex = retry.queue.readIndex
          /\ CommittedBytes(eventQueue) =
                CommittedBytes(retry.queue) \o RecordBytes(retry.event)
    /\ retry.stage = 4 =>
          /\ lastEvent # NoEvent
          /\ oc_ringbuffer_read_available(eventQueue) >=
                SerializedSize(retry.event)
    /\ retry.stage = 5 =>
          /\ lastEvent = Delivered(retry.event)
          /\ lastMalformed = "no"

\* the whole scenario has run: the event pushed again was returned after the
\* events that were in the queue before it
C12_Witness ==
    /\ retry.stage = 5
    /\ queueCall = "next"
    /\ lastEvent = Delivered(retry.event)
    /\ eventQueue.readIndex > Capacity

\* C13 as stated: oc_wgpu_surface_get_swapchain takes the rebuild branch only
\* when the requested device differs from the cached device or the requested
\* size differs from the cached size, and a call with the same device and the
\* same size as the previous call makes no call to the WebGPU API and leaves
\* the cached device, swapchain and size as they were.
C13_RebuildOnlyOnChange ==
    [][(surface.alive /\ surface'.alive) =>
          /\ lastGet'.rebuilt =>
                \/ surface.wgpuDevice # lastGet'.device
                \/ surface.swapChainSize # lastGet'.size
          /\ (/\ lastGet.valid
              /\ lastGet'.device = lastGet.device
              /\ lastGet'.size = lastGet.size) =>
                /\ lastGet'.calls = <<>>
                /\ surface' = surface]_vars

\* C13, amended: the rebuild branch is taken exactly when the requested
\* device differs from the cached device, no swapchain is cached, or the
\* requested size differs from the cached size; any other call makes no call
\* to the WebGPU API, leaves the cached device, swapchain and size as they
\* were and returns the cached swapchain.
C13_SwapchainCacheReuse ==
    [][(surface.alive /\ surface'.alive) =>
          LET changed == \/ surface.wgpuDevice # lastGet'.device
                         \/ surface.wgpuSwapChain = 0
                         \/ surface.swapChainSize # lastGet'.size
          IN  /\ lastGet'.rebuilt = changed
              /\ changed => surface'.swapChainSize = lastGet'.size
              /\ ~ changed =>
                    /\ lastGet'.calls = <<>>
                    /\ surface' = surface
                    /\ deviceRefs' = deviceRefs
                    /\ liveSwapChains' = liveSwapChains
                    /\ lastGet'.result = surface.wgpuSwapChain]_vars

\* the cached swapchain was returned by a call that made no call to the
\* WebGPU API
C13_Witness ==
    /\ surface.alive
    /\ lastGet.valid
    /\ ~ lastGet.rebuilt
    /\ lastGet.calls = <<>>
    /\ lastGet.result # 0
    /\ lastGet.result = surface.wgpuSwapChain
    /\ lastGet.device = surface.wgpuDevice
    /\ lastGet.size = surface.swapChainSize

\* C14: a rebuild makes its release calls before its reference and creation
\* calls, and in every state the surface holds at most one reference on any
\* device, holds a reference only on its cached device, and has at most one
\* swapchain alive.
C14_ReleaseBeforeAcquire ==
    /\ \A i, j \in DOMAIN lastGet.calls :
          (/\ lastGet.calls[i] \in {"wgpuSwapChainRelease", "wgpuDeviceRelease"}
           /\ lastGet.calls[j] \in {"wgpuDeviceReference",
                                    "wgpuDeviceCreateSwapChain"}) => i < j
    /\ Cardinality(liveSwapChains) <= 1
    /\ surface.alive =>
          \A d \in Devices :
             /\ deviceRefs[d] <= 1
             /\ deviceRefs[d] > 0 => surface.wgpuDevice = d

\* C15: pool initialisation.  After oc_init_window_handles every slot has
\* generation 1 and the free list holds all the slots in index order; the
\* first OC_APP_MAX_WINDOWS calls of oc_window_alloc return slots 0, 1, ...
\* in that order, each with generation 1.
C15_PoolInitialisation ==
    /\ scenario = 0 =>
          /\ \A window \in Slots : generation[window] = 1
          /\ Len(windowFreeList) = OC_APP_MAX_WINDOWS
          /\ \A k \in 1 .. OC_APP_MAX_WINDOWS : windowFreeList[k] = k - 1
    /\ (lastCall = "alloc" /\ scenario \in 1 .. OC_APP_MAX_WINDOWS) =>
          /\ allocResult = scenario - 1
          /\ generation[allocResult] = 1
          /\ HandleGeneration(oc_window_handle_from_ptr(allocResult)) = 1

\* the last slot of the pool was returned by the last of the first allocs
C15_Witness ==
    /\ lastCall = "alloc"
    /\ scenario = OC_APP_MAX_WINDOWS
    /\ allocResult = OC_APP_MAX_WINDOWS - 1
    /\ windowFreeList = <<>>

\* C16: handle round trip.  In every state, for every slot p,
\* oc_window_ptr_from_handle(oc_window_handle_from_ptr(p)) is p; the handles
\* of two different slots are different values, and so are the handles of one
\* slot at two different generations.
C16_HandleRoundTrip ==
    /\ \A p \in Slots :
          /\ oc_window_handle_from_ptr(p) \in Handles
          /\ oc_window_ptr_from_handle(oc_window_handle_from_ptr(p)) = p
    /\ \A p, q \in Slots :
          p # q => oc_window_handle_from_ptr(p) # oc_window_handle_from_ptr(q)
    /\ held # <<>> =>
          /\ \A p \in Slots \ {held[1].slot} :
                held[1].h # oc_window_handle_from_ptr(p)
          /\ (held[1].recycles < MaxRecycles /\ held[1].recycles % GenMod # 0) =>
                held[1].h # oc_window_handle_from_ptr(held[1].slot)
          /\ (/\ held[1].recycles = 0
              /\ lastCall = "ptr_from_handle"
              /\ lookupHandle = held[1].h) => lookupResult = held[1].slot

\* the handle just taken for the last slot, at a generation that is not the
\* initial one, was resolved to that slot
C16_Witness ==
    /\ held # <<>>
    /\ held[1].recycles = 0
    /\ held[1].slot = OC_APP_MAX_WINDOWS - 1
    /\ generation[held[1].slot] > 1
    /\ lastCall = "ptr_from_handle"
    /\ lookupHandle = held[1].h
    /\ lookupResult = held[1].slot

\* number of times a slot is on the free list
Occurrences(window) ==
    Cardinality({k \in 1 .. Len(windowFreeList) : windowFreeList[k] = window})

\* C17: free/allocated partition.  With oc_window_recycle_ptr called only on
\* allocated slots, in every state every slot is either on the free list
\* exactly once or allocated, never both; the free and the allocated slots
\* are the whole pool; and oc_window_alloc never returns a slot that is
\* allocated when it is called.
C17_Partition ==
    /\ [](/\ owned \subseteq Slots
          /\ \A k \in 1 .. Len(windowFreeList) : windowFreeList[k] \in Slots
          /\ \A window \in Slots :
                IF window \in owned
                THEN Occurrences(window) = 0
                ELSE Occurrences(window) = 1
          /\ Len(windowFreeList) + Cardinality(owned) = OC_APP_MAX_WINDOWS)
    /\ [][(lastCall' = "alloc" /\ allocResult' # NullPtr) =>
             /\ allocResult' \notin owned
             /\ allocResult' \in owned'
             /\ Occurrences(allocResult') = 1]_vars

\* a slot that had been recycled was given out again while another slot
\* was free
C17_Witness ==
    /\ lastCall = "alloc"
    /\ allocResult \in owned
    /\ generation[allocResult] > 1
    /\ windowFreeList # <<>>
    /\ Allocated(allocResult)

\* C18: the null handle never resolves.  In every state
\* oc_window_ptr_from_handle of the null handle is null, and
\* oc_window_handle_from_ptr gives no handle that oc_window_handle_is_null
\* accepts.
C18_NullHandleNeverResolves ==
    /\ oc_window_ptr_from_handle(0) = NullPtr
    /\ \A window \in Slots :
          ~ oc_window_handle_is_null(oc_window_handle_from_ptr(window))

\* the bytes are whole records laid end to end: a header, then, for a
\* path-drop header, as many whole elements as it declares
RECURSIVE RecordBoundary(_)
RecordBoundary(bytes) ==
    \/ bytes = <<>>
    \/ /\ Len(bytes) >= SizeofEvent
       /\ LET declared == IF bytes[1] = OC_EVENT_PATHDROP THEN bytes[3] ELSE 0
              payload == SubSeq(bytes, SizeofEvent + 1, Len(bytes))
              whole == WholeElements(payload, declared)
          IN  /\ Len(whole) = declared
              /\ RecordBoundary(SubSeq(payload, PathsSize(whole) + 1,
                                       Len(payload)))

\* C19: the consumer stays on record boundaries.  When every path-drop event
\* pushed declares as many elements as its list holds, in every state the
\* read cursor is at the start of a committed record or is the write cursor,
\* and oc_next_event takes neither malformed-payload branch.
C19_RecordBoundaries ==
    /\ eventQueue.readIndex <= eventQueue.writeIndex
    /\ RecordBoundary(CommittedBytes(eventQueue))
    /\ lastMalformed = "no"
    /\ queueCall = "next" => Len(lastEvent.paths) = lastEvent.eltCount \/
                             lastEvent.type # OC_EVENT_PATHDROP

\* a path-drop event with a path was read whole, the read cursor stopping at
\* the start of the record committed behind it
C19_Witness ==
    /\ queueCall = "next"
    /\ lastEvent.type = OC_EVENT_PATHDROP
    /\ lastEvent.paths = << <<6, 7>> >>
    /\ lastMalformed = "no"
    /\ eventQueue.readIndex < eventQueue.writeIndex

\* C20: staged bytes fit in the free space.  While oc_queue_event runs, every
\* reserve is made with a size no larger than the capacity left free after
\* the bytes already reserved by the same push, so the staging cursor S keeps
\* W <= S and S - R <= Capacity in every state.
C20_StagedBytesFit ==
    /\ [](/\ eventQueue.writeIndex <= eventQueue.reserveIndex
          /\ eventQueue.reserveIndex - eventQueue.readIndex <= Capacity)
    /\ [][eventQueue'.reserveIndex > eventQueue.reserveIndex =>
             eventQueue'.reserveIndex - eventQueue.reserveIndex
                <= Capacity - (eventQueue.reserveIndex - eventQueue.readIndex)]_vars

\* a push in progress has staged a header and a path up to the last free
\* byte, behind a record that is still unread, after the cursors have wrapped
C20_Witness ==
    /\ producer.pc = "paths"
    /\ eventQueue.reserveIndex - eventQueue.readIndex = Capacity
    /\ eventQueue.reserveIndex - eventQueue.writeIndex > SizeofEvent
    /\ eventQueue.writeIndex > eventQueue.readIndex
    /\ eventQueue.reserveIndex > Capacity

====
